---- MODULE Spec2Model ----
(***************************************************************************)
(* FlexNN: dense feed-forward network trainer (lib/FlexNN.cpp,             *)
(* lib/Layer.cpp, include/Layer.h, lib/Utility.cpp).                       *)
(*                                                                         *)
(* Numbers.  The code computes in IEEE doubles.  Here a double is a        *)
(* fixed-point number: the integer n stands for n / Scale, and every       *)
(* product and quotient is rounded to the nearest such number.             *)
(* Matrices are records [r, c, v] with v a sequence of r rows of c numbers *)
(* (Eigen::MatrixXd; a VectorXd is a matrix with c = 1).                   *)
(*                                                                         *)
(* Failures.  The build (CMakeLists: -O3, no NDEBUG) keeps Eigen's         *)
(* eigen_assert, so an operation on incompatible shapes aborts the         *)
(* process.  An operator that can fail returns [ok, val]; the state        *)
(* machine moves to pc = "failed" and stops.                               *)
(***************************************************************************)
EXTENDS Integers, Sequences, FiniteSets, TLC

----------------------------------------------------------------------------
(* Numbers *)

\* resolution of the number model: a double x is the integer nearest to x * Scale
Scale == 1024

\* n / d rounded to the nearest integer (d # 0), halves upward
RoundDiv(n, d) == IF d > 0 THEN (2 * n + d) \div (2 * d) ELSE (-2 * n - d) \div (-2 * d)

\* the double nearest to the fraction n / d, and to the integer n
Rat(n, d) == RoundDiv(n * Scale, d)
RInt(n) == n * Scale
Zero == RInt(0)
One == RInt(1)

RAdd(a, b) == a + b
RSub(a, b) == a - b
RMul(a, b) == RoundDiv(a * b, Scale)
RDiv(a, b) == RoundDiv(a * Scale, b)
RLt(a, b) == a < b
RMax(a, b) == IF RLt(a, b) THEN b ELSE a

\* floor of a number (\div rounds toward minus infinity)
Floor(a) == a \div Scale

\* static_cast<int>(double): truncation toward zero
Trunc(a) == IF a >= 0 THEN a \div Scale ELSE -((-a) \div Scale)

RECURSIVE Pow2(_)
Pow2(k) == IF k = 0 THEN 1 ELSE 2 * Pow2(k - 1)

\* log2(e) = 1.4427 to four places
Log2e == Rat(14427, 10000)

\* std::exp: e^a = 2^(a * log2 e), with 2^y taken exactly at integer y and
\* linearly in between.  Exp is positive or rounds to 0 far below 0, is
\* monotone, and Exp(0) = 1.  Below -16 the result is under half of
\* 1 / Scale, so the nearest number is 0 (as e^a underflows to 0 in a double
\* far below 0).
Exp(a) ==
  IF RLt(a, RInt(-16)) THEN Zero
  ELSE LET y == RMul(a, Log2e)
           f == Floor(y)
           mant == Scale + (y - f * Scale)
       IN  IF f >= 0 THEN mant * Pow2(f) ELSE RoundDiv(mant, Pow2(-f))

----------------------------------------------------------------------------
(* Eigen matrices *)

Mat(rows) == [r |-> Len(rows), c |-> IF Len(rows) = 0 THEN 0 ELSE Len(rows[1]), v |-> rows]

NoMat == [r |-> 0, c |-> 0, v |-> <<>>]

\* MatrixXd::Constant(rows, cols, x)
Const(rows, cols, x) == [r |-> rows, c |-> cols, v |-> [i \in 1..rows |-> [j \in 1..cols |-> x]]]

Ok(val) == [ok |-> TRUE, val |-> val]
Bad == [ok |-> FALSE, val |-> NoMat]

SameShape(A, B) == A.r = B.r /\ A.c = B.c

RECURSIVE SeqSum(_)
SeqSum(s) == IF Len(s) = 0 THEN Zero ELSE RAdd(s[1], SeqSum(Tail(s)))

Transpose(A) == [r |-> A.c, c |-> A.r, v |-> [i \in 1..A.c |-> [j \in 1..A.r |-> A.v[j][i]]]]

\* A * B, defined when A.c = B.r
MatMulRaw(A, B) ==
  [r |-> A.r, c |-> B.c,
   v |-> [i \in 1..A.r |-> [j \in 1..B.c |->
            SeqSum([k \in 1..A.c |-> RMul(A.v[i][k], B.v[k][j])])]]]

\* MatMul without the dimension check: the product runs over the inner
\* indices both operands have
MatMul_commonInner(A, B) ==
  Ok([r |-> A.r, c |-> B.c,
      v |-> [i \in 1..A.r |-> [j \in 1..B.c |->
               SeqSum([k \in 1..(IF A.c < B.r THEN A.c ELSE B.r) |->
                         RMul(A.v[i][k], B.v[k][j])])]]])

MatMul(A, B) == IF A.c = B.r THEN Ok(MatMulRaw(A, B)) ELSE Bad

MatSub(A, B) ==
  IF SameShape(A, B)
  THEN Ok([r |-> A.r, c |-> A.c,
           v |-> [i \in 1..A.r |-> [j \in 1..A.c |-> RSub(A.v[i][j], B.v[i][j])]]])
  ELSE Bad

\* cwise product of two arrays
MatHadamard(A, B) ==
  IF SameShape(A, B)
  THEN Ok([r |-> A.r, c |-> A.c,
           v |-> [i \in 1..A.r |-> [j \in 1..A.c |-> RMul(A.v[i][j], B.v[i][j])]]])
  ELSE Bad

\* s * A, A / x for a scalar
MatScale(s, A) ==
  [r |-> A.r, c |-> A.c, v |-> [i \in 1..A.r |-> [j \in 1..A.c |-> RMul(s, A.v[i][j])]]]

MatDivScalar(A, x) ==
  [r |-> A.r, c |-> A.c, v |-> [i \in 1..A.r |-> [j \in 1..A.c |-> RDiv(A.v[i][j], x)]]]

MatDivInt(A, m) == MatDivScalar(A, RInt(m))

\* MatRelu letting half of a negative entry through (a leaky unit)
MatRelu_leaky(A) ==
  [r |-> A.r, c |-> A.c,
   v |-> [i \in 1..A.r |-> [j \in 1..A.c |->
            IF RLt(A.v[i][j], Zero) THEN RDiv(A.v[i][j], RInt(2)) ELSE A.v[i][j]]]]

\* A.unaryExpr(max(0.0, x))
MatRelu(A) ==
  [r |-> A.r, c |-> A.c, v |-> [i \in 1..A.r |-> [j \in 1..A.c |-> RMax(Zero, A.v[i][j])]]]

\* MatPositive with the comparison >= 0.0
MatPositive_nonNegative(A) ==
  [r |-> A.r, c |-> A.c,
   v |-> [i \in 1..A.r |-> [j \in 1..A.c |-> IF RLt(A.v[i][j], Zero) THEN Zero ELSE One]]]

\* (A.array() > 0.0).cast<double>()
MatPositive(A) ==
  [r |-> A.r, c |-> A.c,
   v |-> [i \in 1..A.r |-> [j \in 1..A.c |-> IF RLt(Zero, A.v[i][j]) THEN One ELSE Zero]]]

\* M.colwise() + b, b a column vector with as many rows as M
AddColwise(M, b) ==
  IF b.c = 1 /\ b.r = M.r
  THEN Ok([r |-> M.r, c |-> M.c,
           v |-> [i \in 1..M.r |-> [j \in 1..M.c |-> RAdd(M.v[i][j], b.v[i][1])]]])
  ELSE Bad

\* M.rowwise().mean(): an M.r x 1 column
RowwiseMean(M) ==
  [r |-> M.r, c |-> 1,
   v |-> [i \in 1..M.r |-> << RDiv(SeqSum(M.v[i]), RInt(M.c)) >>]]

\* VectorXd built from a MatrixXd expression: only a single column converts
ToVector(M) == IF M.c = 1 THEN Ok(M) ELSE Bad

\* M(i) with a 0-based linear index (column-major storage)
LinearAt(M, i) == M.v[(i % M.r) + 1][(i \div M.r) + 1]

\* maxCoeff(): largest coefficient
RECURSIVE SeqMax(_)
SeqMax(s) == IF Len(s) = 1 THEN s[1] ELSE RMax(s[1], SeqMax(Tail(s)))

Flatten(M) == [k \in 1..(M.r * M.c) |-> LinearAt(M, k - 1)]

MaxCoeff(M) == SeqMax(Flatten(M))

Col(M, j) == [i \in 1..M.r |-> M.v[i][j]]

\* col.maxCoeff(&index): the visitor starts at coefficient 0 and moves to
\* a later coefficient only when it is strictly greater; 0-based result
\* ArgMaxFrom moving on a coefficient that is merely not smaller (>=)
RECURSIVE ArgMaxFrom_lastMax(_, _, _)
ArgMaxFrom_lastMax(s, i, best) ==
  IF i > Len(s) THEN best - 1
  ELSE ArgMaxFrom_lastMax(s, i + 1, IF ~RLt(s[i], s[best]) THEN i ELSE best)

RECURSIVE ArgMaxFrom(_, _, _)
ArgMaxFrom(s, i, best) ==
  IF i > Len(s) THEN best - 1
  ELSE ArgMaxFrom(s, i + 1, IF RLt(s[best], s[i]) THEN i ELSE best)

ArgMax(s) == ArgMaxFrom(s, 2, 1)

----------------------------------------------------------------------------
(* Layer (include/Layer.h, lib/Layer.cpp) *)

\* Eigen::MatrixXd::Random(rows, cols) * 0.5: every coefficient is some value
\* in [-0.5, 0.5].  The draw is a choice of seed; coefficient (i, j) is taken
\* from a fixed palette of such values.
Palette == << Rat(1, 2), Rat(-1, 2), Rat(1, 4), Zero, Rat(-1, 4) >>

Random(rows, cols, seed) ==
  [r |-> rows, c |-> cols,
   v |-> [i \in 1..rows |-> [j \in 1..cols |->
            Palette[((seed + 3 * i + j) % Len(Palette)) + 1]]]]

\* Layer::Layer(inputSize, outputSize, activationFunction)
Layer(inputSize, outputSize, activationFunction, seed) ==
  [inputSize |-> inputSize, outputSize |-> outputSize,
   activationFunction |-> activationFunction,
   W |-> Random(outputSize, inputSize, seed),
   b |-> Random(outputSize, 1, seed + 1)]

getWeights(layer) == layer.W

getBiases(layer) == layer.b

\* A.array().exp()
MatExp(A) ==
  [r |-> A.r, c |-> A.c, v |-> [i \in 1..A.r |-> [j \in 1..A.c |-> Exp(A.v[i][j])]]]

\* SoftmaxCol dividing by the largest exponential instead of their sum
SoftmaxCol_maxNormalised(col) ==
  LET maxCoeff == SeqMax(col)
      expCol == [i \in 1..Len(col) |-> Exp(RSub(col[i], maxCoeff))]
  IN  [i \in 1..Len(col) |-> RDiv(expCol[i], SeqMax(expCol))]

\* softmax of one column: subtract the maximum, exponentiate, normalise
SoftmaxCol(col) ==
  LET maxCoeff == SeqMax(col)
      expCol == [i \in 1..Len(col) |-> Exp(RSub(col[i], maxCoeff))]
      total == SeqSum(expCol)
  IN  [i \in 1..Len(col) |-> RDiv(expCol[i], total)]

\* Activate treating every name but "softmax" as relu
Activate_defaultRelu(activationFunction, output) ==
  IF activationFunction = "softmax"
  THEN [r |-> output.r, c |-> output.c,
        v |-> [i \in 1..output.r |-> [j \in 1..output.c |-> SoftmaxCol(Col(output, j))[i]]]]
  ELSE MatRelu(output)

\* Layer::forward, lines 29-50: the activation chosen by name
Activate(activationFunction, output) ==
  IF activationFunction = "relu"
  THEN MatRelu(output)
  ELSE IF activationFunction = "softmax"
  THEN [r |-> output.r, c |-> output.c,
        v |-> [i \in 1..output.r |-> [j \in 1..output.c |-> SoftmaxCol(Col(output, j))[i]]]]
  ELSE output

\* Layer::forward: [ok, Z, A]
Layer_forward(layer, input) ==
  LET prod == MatMul(layer.W, input)
      output == IF prod.ok THEN AddColwise(prod.val, layer.b) ELSE Bad
  IN  IF output.ok
      THEN [ok |-> TRUE, Z |-> output.val, A |-> Activate(layer.activationFunction, output.val)]
      ELSE [ok |-> FALSE, Z |-> NoMat, A |-> NoMat]

\* Layer_backward multiplying by the layer's own W instead of nextW
Layer_backward_ownW(layer, nextW, nextdZ, currZ) ==
  LET back == MatMul(Transpose(getWeights(layer)), nextdZ)
  IN  IF ~back.ok THEN Bad
      ELSE IF layer.activationFunction = "relu"
      THEN MatHadamard(back.val, MatPositive(currZ))
      ELSE IF layer.activationFunction = "softmax"
      THEN LET expZ == ToVector(MatExp(currZ))
           IN  IF ~expZ.ok THEN Bad
               ELSE MatMul(back.val, MatDivScalar(expZ.val, SeqSum(Flatten(expZ.val))))
      ELSE back

\* Layer::backward: [ok, val] with val the layer's dZ
Layer_backward(layer, nextW, nextdZ, currZ) ==
  LET back == MatMul(Transpose(nextW), nextdZ)
  IN  IF ~back.ok THEN Bad
      ELSE IF layer.activationFunction = "relu"
      THEN MatHadamard(back.val, MatPositive(currZ))
      ELSE IF layer.activationFunction = "softmax"
      THEN LET expZ == ToVector(MatExp(currZ))
           IN  IF ~expZ.ok THEN Bad
               ELSE MatMul(back.val, MatDivScalar(expZ.val, SeqSum(Flatten(expZ.val))))
      ELSE back

\* Layer_updateWeights storing the new W transposed
Layer_updateWeights_transposed(layer, dW, db, learningRate) ==
  LET newW == MatSub(layer.W, MatScale(learningRate, dW))
      newb == MatSub(layer.b, MatScale(learningRate, db))
  IN  IF ~newW.ok THEN [ok |-> FALSE, layer |-> layer]
      ELSE IF ~newb.ok THEN [ok |-> FALSE, layer |-> [layer EXCEPT !.W = Transpose(newW.val)]]
      ELSE [ok |-> TRUE, layer |-> [layer EXCEPT !.W = Transpose(newW.val), !.b = newb.val]]

\* Layer_updateWeights subtracting dW from b as well (b -= learningRate * dW)
Layer_updateWeights_biasFromdW(layer, dW, db, learningRate) ==
  LET newW == MatSub(layer.W, MatScale(learningRate, dW))
      newb == MatSub(layer.b, MatScale(learningRate, dW))
  IN  IF ~newW.ok THEN [ok |-> FALSE, layer |-> layer]
      ELSE IF ~newb.ok THEN [ok |-> FALSE, layer |-> [layer EXCEPT !.W = newW.val]]
      ELSE [ok |-> TRUE, layer |-> [layer EXCEPT !.W = newW.val, !.b = newb.val]]

\* Layer::updateWeights: [ok, layer]; W is written before b is touched
Layer_updateWeights(layer, dW, db, learningRate) ==
  LET newW == MatSub(layer.W, MatScale(learningRate, dW))
      newb == MatSub(layer.b, MatScale(learningRate, db))
  IN  IF ~newW.ok THEN [ok |-> FALSE, layer |-> layer]
      ELSE IF ~newb.ok THEN [ok |-> FALSE, layer |-> [layer EXCEPT !.W = newW.val]]
      ELSE [ok |-> TRUE, layer |-> [layer EXCEPT !.W = newW.val, !.b = newb.val]]

----------------------------------------------------------------------------
(* Utility (lib/Utility.cpp) *)

\* std::vector element with the code's 0-based index
At(vec, idx) == vec[idx + 1]

\* oneHotEncode taking the floor of a label instead of truncating it
oneHotEncode_floor(Y, num_classes) ==
  LET vec == ToVector(Y)
  IN  IF ~vec.ok \/ num_classes < 0 THEN Bad
      ELSE Ok([r |-> num_classes, c |-> vec.val.r,
               v |-> [i \in 1..num_classes |-> [j \in 1..vec.val.r |->
                        LET label == Floor(vec.val.v[j][1])
                        IN  IF label >= 0 /\ label < num_classes /\ label = i - 1
                            THEN One ELSE Zero]]])

\* oneHotEncode putting the one of label l in row l + 1 (rows counted from 1)
oneHotEncode_oneBased(Y, num_classes) ==
  LET vec == ToVector(Y)
  IN  IF ~vec.ok \/ num_classes < 0 THEN Bad
      ELSE Ok([r |-> num_classes, c |-> vec.val.r,
               v |-> [i \in 1..num_classes |-> [j \in 1..vec.val.r |->
                        LET label == Trunc(vec.val.v[j][1])
                        IN  IF label >= 0 /\ label < num_classes /\ label = i - 2
                            THEN One ELSE Zero]]])

\* oneHotEncode(const VectorXd &Y, int num_classes): [ok, val]
oneHotEncode(Y, num_classes) ==
  LET vec == ToVector(Y)
  IN  IF ~vec.ok \/ num_classes < 0 THEN Bad
      ELSE Ok([r |-> num_classes, c |-> vec.val.r,
               v |-> [i \in 1..num_classes |-> [j \in 1..vec.val.r |->
                        LET label == Trunc(vec.val.v[j][1])
                        IN  IF label >= 0 /\ label < num_classes /\ label = i - 1
                            THEN One ELSE Zero]]])

\* size_t is an unsigned integer of SizeBits bits.  The build has 64; the
\* model keeps the wraparound with a narrower word.
SizeBits == 16

SizeMod == Pow2(SizeBits)

\* size_t addition and subtraction
SizeAdd(a, b) == (a + b) % SizeMod
SizeSub(a, b) == (a - b) % SizeMod

\* static_cast<size_t>(x) for a double x >= 0
ToSize(x) == Trunc(x) % SizeMod

\* a size_t handed to Eigen, which takes the signed Eigen::Index of the same width
ToIndex(n) == IF n >= SizeMod \div 2 THEN n - SizeMod ELSE n

\* splitSizes rounding proportion * nRows to the nearest integer
RECURSIVE splitSizes_rounded(_, _, _, _, _)
splitSizes_rounded(proportions, nRows, i, sizes, total) ==
  IF i >= Len(proportions) THEN [sizes |-> sizes, total |-> total]
  ELSE LET sz == ToSize(RMul(At(proportions, i), RInt(nRows)) + Scale \div 2)
       IN  splitSizes_rounded(proportions, nRows, i + 1, Append(sizes, sz), SizeAdd(total, sz))

\* splitXY, lines 81-88: the loop over the proportions from index i on;
\* [sizes, total]
RECURSIVE splitSizes(_, _, _, _, _)
splitSizes(proportions, nRows, i, sizes, total) ==
  IF i >= Len(proportions) THEN [sizes |-> sizes, total |-> total]
  ELSE LET sz == ToSize(RMul(At(proportions, i), RInt(nRows)))
       IN  splitSizes(proportions, nRows, i + 1, Append(sizes, sz), SizeAdd(total, sz))

\* splitXY, lines 90-91: sizes.back() += nRows - total
adjustLast(sizes, nRows, total) ==
  IF Len(sizes) = 0 THEN sizes
  ELSE [sizes EXCEPT ![Len(sizes)] = SizeAdd(@, SizeSub(nRows, total))]

\* splitXY, lines 98-104: one split of sz rows, the rows at positions start,
\* ..., start + sz - 1 of the shuffled order; rows lists their original
\* indices.  X_split(sz, ...) asserts sz >= 0 as an Index.  A position past
\* the end of indices is read out of bounds: whatever that read yields (a
\* row index Eigen rejects, one it accepts, a fault), the call cannot
\* return, since a split reaching past the end makes the last size wrap
\* to a negative Index.
takeRows(X, Y, indices, start, sz) ==
  IF ToIndex(sz) < 0 \/ start + sz > Len(indices)
  THEN [ok |-> FALSE, X |-> NoMat, Y |-> NoMat, rows |-> << >>]
  ELSE [ok |-> TRUE,
        X |-> [r |-> sz, c |-> X.c, v |-> [i \in 1..sz |-> X.v[At(indices, start + i - 1) + 1]]],
        Y |-> [r |-> sz, c |-> 1, v |-> [i \in 1..sz |-> Y.v[At(indices, start + i - 1) + 1]]],
        rows |-> [i \in 1..sz |-> At(indices, start + i - 1)]]

\* splitLoop without start += sz: every split begins at position 0
RECURSIVE splitLoop_sameStart(_, _, _, _, _, _, _)
splitLoop_sameStart(X, Y, indices, sizes, k, start, splits) ==
  IF k >= Len(sizes) THEN [ok |-> TRUE, splits |-> splits]
  ELSE LET sz == At(sizes, k)
           part == takeRows(X, Y, indices, start, sz)
       IN  IF ~part.ok THEN [ok |-> FALSE, splits |-> splits]
           ELSE splitLoop_sameStart(X, Y, indices, sizes, k + 1, start,
                                    Append(splits, [X |-> part.X, Y |-> part.Y, rows |-> part.rows]))

\* splitXY, lines 93-107: the loop over the sizes from index k on; [ok, splits]
RECURSIVE splitLoop(_, _, _, _, _, _, _)
splitLoop(X, Y, indices, sizes, k, start, splits) ==
  IF k >= Len(sizes) THEN [ok |-> TRUE, splits |-> splits]
  ELSE LET sz == At(sizes, k)
           part == takeRows(X, Y, indices, start, sz)
       IN  IF ~part.ok THEN [ok |-> FALSE, splits |-> splits]
           ELSE splitLoop(X, Y, indices, sizes, k + 1, SizeAdd(start, sz),
                          Append(splits, [X |-> part.X, Y |-> part.Y, rows |-> part.rows]))

\* splitXY(X, Y, proportions), with indices the shuffled 0 .. nRows-1:
\* [ok, sizes, splits]
splitXY(X, Y, proportions, indices) ==
  LET nRows == X.r
      raw == splitSizes(proportions, nRows, 0, << >>, 0)
      sizes == adjustLast(raw.sizes, nRows, raw.total)
      res == splitLoop(X, Y, indices, sizes, 0, 0, << >>)
  IN  [ok |-> res.ok, sizes |-> sizes, splits |-> res.splits]

----------------------------------------------------------------------------
(* NeuralNetwork (lib/FlexNN.cpp, include/FlexNN.h) *)

Reverse(s) == [k \in 1..Len(s) |-> s[Len(s) + 1 - k]]

\* forwardLoop feeding the next layer the last Z instead of the last A
RECURSIVE forwardLoop_feedsZ(_, _, _)
forwardLoop_feedsZ(layers, i, outputs) ==
  IF i >= Len(layers) THEN [ok |-> TRUE, val |-> outputs]
  ELSE LET src == IF Len(outputs) >= 2 THEN Len(outputs) - 2 ELSE Len(outputs) - 1
           result == Layer_forward(At(layers, i), At(outputs, src))
       IN  IF ~result.ok THEN [ok |-> FALSE, val |-> outputs]
           ELSE forwardLoop_feedsZ(layers, i + 1, outputs \o << result.Z, result.A >>)

\* NeuralNetwork::forward, the loop from layer index i (0-based) on
RECURSIVE forwardLoop(_, _, _)
forwardLoop(layers, i, outputs) ==
  IF i >= Len(layers) THEN [ok |-> TRUE, val |-> outputs]
  ELSE LET result == Layer_forward(At(layers, i), At(outputs, Len(outputs) - 1))
       IN  IF ~result.ok THEN [ok |-> FALSE, val |-> outputs]
           ELSE forwardLoop(layers, i + 1, outputs \o << result.Z, result.A >>)

\* NeuralNetwork::forward: [ok, val] with val the cache
forward(layers, input) == forwardLoop(layers, 0, << input >>)

\* predict, line 188: the last entry of the cache forward returned
lastOutput(outputs) ==
  IF outputs.ok THEN Ok(At(outputs.val, Len(outputs.val) - 1)) ELSE Bad

\* NeuralNetwork::predict: [ok, val]
predict(layers, input) == lastOutput(forward(layers, input))

\* one gradient pair as the code pushes it: db first, then dW
GradPair(dZ, leftAct, m) ==
  LET prod == MatMul(dZ, Transpose(leftAct))
  IN  IF prod.ok THEN [ok |-> TRUE, val |-> << RowwiseMean(dZ), MatDivInt(prod.val, m) >>]
      ELSE [ok |-> FALSE, val |-> << >>]

\* backwardLoop taking the left-hand activation one cache slot too far
\* (outputs[2i + 2], the layer's own A, instead of outputs[2i])
RECURSIVE backwardLoop_shiftedInput(_, _, _, _, _, _)
backwardLoop_shiftedInput(layers, outputs, m, i, dZs, gradients) ==
  IF i < 0 THEN [ok |-> TRUE, gradients |-> gradients, dZs |-> dZs]
  ELSE LET dZ == Layer_backward(At(layers, i), getWeights(At(layers, i + 1)),
                                At(dZs, Len(dZs) - 1), At(outputs, 2 * i + 1))
           pair == IF dZ.ok THEN GradPair(dZ.val, At(outputs, 2 * i + 2), m)
                   ELSE [ok |-> FALSE, val |-> << >>]
       IN  IF ~pair.ok THEN [ok |-> FALSE, gradients |-> gradients, dZs |-> dZs]
           ELSE backwardLoop_shiftedInput(layers, outputs, m, i - 1,
                                          Append(dZs, dZ.val), gradients \o pair.val)

\* NeuralNetwork::backward, the loop from layer index i down to 0
RECURSIVE backwardLoop(_, _, _, _, _, _)
backwardLoop(layers, outputs, m, i, dZs, gradients) ==
  IF i < 0 THEN [ok |-> TRUE, gradients |-> gradients, dZs |-> dZs]
  ELSE LET dZ == Layer_backward(At(layers, i), getWeights(At(layers, i + 1)),
                                At(dZs, Len(dZs) - 1), At(outputs, 2 * i + 1))
           pair == IF dZ.ok THEN GradPair(dZ.val, At(outputs, 2 * i), m)
                   ELSE [ok |-> FALSE, val |-> << >>]
       IN  IF ~pair.ok THEN [ok |-> FALSE, gradients |-> gradients, dZs |-> dZs]
           ELSE backwardLoop(layers, outputs, m, i - 1,
                             Append(dZs, dZ.val), gradients \o pair.val)

\* backward reading the last layer's input at outputs.size() - 2 (its Z)
backward_lastZ(layers, outputs, target) ==
  LET dZ == MatSub(At(outputs, Len(outputs) - 1), target)
      m == dZ.val.c
      pair == IF dZ.ok THEN GradPair(dZ.val, At(outputs, Len(outputs) - 2), m)
              ELSE [ok |-> FALSE, val |-> << >>]
      rest == IF pair.ok
              THEN backwardLoop(layers, outputs, m, Len(layers) - 2, << dZ.val >>, pair.val)
              ELSE [ok |-> FALSE, gradients |-> << >>, dZs |-> << >>]
  IN  [ok |-> rest.ok, gradients |-> Reverse(rest.gradients), dZs |-> rest.dZs]

\* backward without the final std::reverse
backward_noReverse(layers, outputs, target) ==
  LET dZ == MatSub(At(outputs, Len(outputs) - 1), target)
      m == dZ.val.c
      pair == IF dZ.ok THEN GradPair(dZ.val, At(outputs, Len(outputs) - 3), m)
              ELSE [ok |-> FALSE, val |-> << >>]
      rest == IF pair.ok
              THEN backwardLoop(layers, outputs, m, Len(layers) - 2, << dZ.val >>, pair.val)
              ELSE [ok |-> FALSE, gradients |-> << >>, dZs |-> << >>]
  IN  [ok |-> rest.ok, gradients |-> rest.gradients, dZs |-> rest.dZs]

\* NeuralNetwork::backward: [ok, gradients, dZs]; dZs is the local list of
\* every layer's dZ, last layer first
backward(layers, outputs, target) ==
  LET dZ == MatSub(At(outputs, Len(outputs) - 1), target)
      m == dZ.val.c
      pair == IF dZ.ok THEN GradPair(dZ.val, At(outputs, Len(outputs) - 3), m)
              ELSE [ok |-> FALSE, val |-> << >>]
      rest == IF pair.ok
              THEN backwardLoop(layers, outputs, m, Len(layers) - 2, << dZ.val >>, pair.val)
              ELSE [ok |-> FALSE, gradients |-> << >>, dZs |-> << >>]
  IN  [ok |-> rest.ok, gradients |-> Reverse(rest.gradients), dZs |-> rest.dZs]

\* most rows of a matrix read from outside the cache
MaxStray == 1

\* backward, line 110, on a cache of fewer than three entries (a network
\* without layers: the cache holds the input alone).  outputs.size() - 3
\* wraps around and outputs[...] reads memory that is not part of the cache.
\* What the read yields is not defined: a matrix whose column count differs
\* from dZ's trips the product's assertion, an unmapped address faults, and a
\* matrix of m columns lets the call go on with it.
StrayReads(m) == { Const(rows, m, x) : rows \in 0..MaxStray, x \in { Zero, RInt(-3) } }

\* the outcomes of NeuralNetwork::backward: the one the code defines when
\* every cache index is inside the cache, and otherwise a failure or a
\* gradient list made from whatever the stray read yielded
backwardOutcomes(layers, outputs, target) ==
  IF Len(outputs) >= 3 THEN { backward(layers, outputs, target) }
  ELSE LET dZ == MatSub(At(outputs, Len(outputs) - 1), target)
       IN  { [ok |-> FALSE, gradients |-> << >>, dZs |-> << >>] } \cup
           { [ok |-> TRUE, gradients |-> Reverse(GradPair(dZ.val, stray, dZ.val.c).val),
              dZs |-> << dZ.val >>] :
               stray \in IF dZ.ok THEN StrayReads(dZ.val.c) ELSE {} }

\* the cache indices NeuralNetwork::backward reads (lines 110, 114, 117) with
\* L layers and a cache of cacheSize entries; outputs.size() - 3 is computed
\* in size_t
backwardReads(L, cacheSize) ==
  { SizeSub(cacheSize, 3) } \cup { 2 * i + 1 : i \in 0..(L - 2) } \cup { 2 * i : i \in 0..(L - 2) }

\* the gradient indices NeuralNetwork::updateWeights reads (lines 138, 139)
updateReads(L) == { 2 * i : i \in 0..(L - 1) } \cup { 2 * i + 1 : i \in 0..(L - 1) }

\* NeuralNetwork::updateWeights, the loop from layer index i on:
\* [ok, layers, updated], updated listing the indices of the layers whose
\* Layer::updateWeights ran to its end
RECURSIVE updateLoop(_, _, _, _, _)
updateLoop(layers, gradients, learningRate, i, updated) ==
  IF i >= Len(layers) THEN [ok |-> TRUE, layers |-> layers, updated |-> updated]
  ELSE LET dW == At(gradients, 2 * i)
           db == ToVector(At(gradients, 2 * i + 1))
           upd == IF db.ok THEN Layer_updateWeights(At(layers, i), dW, db.val, learningRate)
                  ELSE [ok |-> FALSE, layer |-> At(layers, i)]
           next == [layers EXCEPT ![i + 1] = upd.layer]
       IN  IF ~upd.ok THEN [ok |-> FALSE, layers |-> next, updated |-> updated]
           ELSE updateLoop(next, gradients, learningRate, i + 1, Append(updated, i))

updateWeights(layers, gradients, learningRate) ==
  updateLoop(layers, gradients, learningRate, 0, << >>)

\* the loop of NeuralNetwork::accuracy over the prediction columns
RECURSIVE countCorrect(_, _, _)
countCorrect(predictions, Y, i) ==
  IF i >= predictions.c THEN [ok |-> TRUE, correct |-> 0]
  ELSE IF i >= Y.r * Y.c \/ predictions.r = 0 THEN [ok |-> FALSE, correct |-> 0]
  ELSE LET predictedClass == ArgMax(Col(predictions, i + 1))
           rest == countCorrect(predictions, Y, i + 1)
       IN  [ok |-> rest.ok,
            correct |-> rest.correct + (IF predictedClass = Trunc(LinearAt(Y, i)) THEN 1 ELSE 0)]

\* accuracy, line 66: correct / predictions.cols(); with no prediction column
\* the quotient is 0.0 / 0, which is NaN: nan is TRUE and val carries no number
quotient(cnt, cols) ==
  IF ~cnt.ok THEN [ok |-> FALSE, val |-> Zero, nan |-> FALSE]
  ELSE IF cols = 0 THEN [ok |-> TRUE, val |-> Zero, nan |-> TRUE]
  ELSE [ok |-> TRUE, val |-> RDiv(RInt(cnt.correct), RInt(cols)), nan |-> FALSE]

\* accuracy, lines 56-66, on what predict returned
score(predictions, Y) ==
  quotient(IF predictions.ok THEN countCorrect(predictions.val, Y, 0)
           ELSE [ok |-> FALSE, correct |-> 0],
           predictions.val.c)

\* NeuralNetwork::accuracy: [ok, val, nan]
accuracy(layers, X, Y) == score(predict(layers, X), Y)

----------------------------------------------------------------------------
(* Bounds and the inputs the callers draw from *)

MaxSeed == 2
MaxCalls == 2
MaxEpochs == 2
LongEpochs == 10

ColVec(labels) == [r |-> Len(labels), c |-> 1, v |-> [i \in 1..Len(labels) |-> << labels[i] >>]]

\* networks a caller may construct (the constructor validates nothing)
Networks ==
  UNION { { << Layer(2, 2, "softmax", s) >>,
            << Layer(2, 3, "relu", s), Layer(3, 2, "softmax", s + 1) >>,
            << Layer(2, 2, "relu", s), Layer(2, 1, "linear", s + 2), Layer(1, 2, "softmax", s + 1) >>,
            << Layer(2, 1, "softmax", s), Layer(1, 2, "softmax", s + 1) >>,
            << Layer(2, 2, "relu", s), Layer(2, 2, "softmax", s + 1) >>,
            << Layer(2, 2, "relu", s), Layer(3, 2, "softmax", s + 1) >>,
            << Layer(2, 2, "ReLU", s), Layer(2, 2, "sigmoid", s + 1) >> } : s \in 1..MaxSeed }

\* feature matrices, features x samples; the last one holds no sample
Inputs ==
  { Mat(<< << RInt(1), RInt(-2) >>, << RInt(1), RInt(1) >> >>),
    Mat(<< << RInt(1) >>, << RInt(-1) >> >>),
    Mat(<< << RInt(1) >>, << RInt(2) >>, << RInt(1) >> >>),
    Mat(<< << >>, << >> >>) }

\* label vectors, one entry per sample; the last one is empty
Targets ==
  { ColVec(<< RInt(0), RInt(1) >>),
    ColVec(<< RInt(1), Rat(3, 2) >>),
    ColVec(<< RInt(0), RInt(0) >>),
    ColVec(<< RInt(1) >>),
    ColVec(<< Rat(1, 2) >>),
    ColVec(<< >>) }

LearningRates == { Rat(1, 2) }

\* bounds of the Layer calls: neurons on either side, samples in a batch
MaxIn == 2
MaxOut == 3
MaxBatch == 2

\* an entry large enough for e^Big to overflow a double (e^710 does)
Big == RInt(1000)

\* the activation names Layer::forward and Layer::backward tell apart: "relu",
\* "softmax", and any other name
ActivationKinds == { "relu", "softmax", "linear" }

\* draws of MatrixXd::Random(rows, cols) * 0.5: the seeded ones and two with
\* all coefficients alike
Draws(rows, cols) ==
  { Random(rows, cols, s) : s \in 1..MaxSeed } \cup { Const(rows, cols, x) : x \in { Rat(1, 2), Zero } }

\* the layers of a given shape a caller may hold
LayersOf(inputSize, outputSize) ==
  { [inputSize |-> inputSize, outputSize |-> outputSize, activationFunction |-> a,
     W |-> W, b |-> b] :
      a \in ActivationKinds, W \in Draws(outputSize, inputSize), b \in Draws(outputSize, 1) }

\* sample columns with entries from a set: all entries alike, or the first
\* one apart from the others
Columns(rows, values) ==
  { [i \in 1..rows |-> IF i = 1 THEN x ELSE y] : x \in values, y \in values }

\* the matrices of m columns drawn from a set of columns
Batches(rows, m, columns) ==
  { [r |-> rows, c |-> m, v |-> [i \in 1..rows |-> [j \in 1..m |-> cols[j][i]]]] :
      cols \in [1..m -> columns] }

\* entries of the inputs handed to Layer::forward, and of the dZ and Z
\* handed to Layer::backward
ForwardValues == { -Big, One, Big }

BackwardValues == { RInt(-1), One }

\* bounds of the Utility calls
MaxLabels == 3
MaxClasses == 3
MaxRows == 3
LongRows == 10
MaxSplits == 2

\* label vectors and class counts handed to oneHotEncode
LabelValues == { RInt(-2), RInt(-1), Rat(-1, 2), Zero, Rat(1, 2), One, RInt(2), RInt(3) }

LabelVectors == { ColVec(l) : l \in UNION { [1..n -> LabelValues] : n \in 0..MaxLabels } }

ClassCounts == -1..MaxClasses

\* a data set of n rows as readCSV_XY leaves it: X with one row per sample
\* (no two rows alike), Y with one label per row
DatasetX(n) == [r |-> n, c |-> 2, v |-> [i \in 1..n |-> << RInt(i), RInt(-i) >>]]

DatasetY(n) == [r |-> n, c |-> 1, v |-> [i \in 1..n |-> << RInt(i % 3) >>]]

RowCounts == 0..MaxRows \cup {LongRows}

\* proportion lists handed to splitXY (no negative entry: the cast of a
\* negative double to size_t is undefined)
ProportionValues == { Zero, Rat(1, 10), Rat(1, 2), Rat(9, 10), One, Rat(3, 2) }

ProportionLists == UNION { [1..n -> ProportionValues] : n \in 0..MaxSplits }

\* std::iota and std::shuffle, lines 72-78: indices is some permutation of
\* 0 .. n-1; every one for n <= MaxRows, a few of them for more rows
Shuffles(n) ==
  LET all == IF n <= MaxRows THEN [1..n -> 0..(n - 1)]
             ELSE { [k \in 1..n |-> (a * (k - 1) + b) % n] : a \in {1, 3, 7, 9}, b \in {0, 3} }
  IN  { p \in all : \A i, j \in 1..n : p[i] = p[j] => i = j }

\* (learningRate, epochs) of a train call; the long run keeps the weights
\* fixed (learningRate 0) so that its numbers stay small
TrainParams ==
  (LearningRates \X (-1..MaxEpochs)) \cup { << Zero, LongEpochs >> }

----------------------------------------------------------------------------
(* State *)

VARIABLES
  layers,        \* NeuralNetwork::layers
  pc,            \* "idle", "failed", or the position inside train
  input,         \* train's arguments ...
  target,
  learningRate,
  epochs,
  Y_onehot,      \* ... and locals
  epoch,
  outputs,
  gradients,
  dZs,           \* backward's local list of dZ, last layer first
  ret,           \* what the last predict / accuracy call returned
  reported,      \* epochs (1-based) at which train printed the accuracy
  calls,         \* train calls made so far
  updates,       \* weight-changing epochs run so far, over all calls
  hist,          \* bookkeeping about the running train call (not program state)
  util           \* the last call of a Utility function or of a Layer method on
                 \* its own, with what it returned

vars == << layers, pc, input, target, learningRate, epochs, Y_onehot, epoch,
           outputs, gradients, dZs, ret, reported, calls, updates, hist, util >>

\* val: the matrix predict returned; acc: the number accuracy returned, or
\* nan when it returned NaN
NoRet == [op |-> "none", X |-> NoMat, Y |-> NoMat, val |-> NoMat, acc |-> Zero,
          nan |-> FALSE]

\* start: the layers when train was called; committed: the layers after the
\* last updateWeights that returned (start before the first); before: the
\* layers just before the last updateWeights; nForward, nBackward, nUpdate:
\* calls of forward, backward, updateWeights made by the loop; updated: the
\* layer indices updated, in order; failedAt: the step that failed
NoHist == [start |-> << >>, committed |-> << >>, nForward |-> 0, nBackward |-> 0,
           nUpdate |-> 0, updated |-> << >>, before |-> << >>, failedAt |-> "none"]

\* op: the Utility function or Layer method called; Y, num_classes:
\* oneHotEncode's arguments; X, Y, proportions: splitXY's arguments and indices
\* what its shuffle left; ok: the call returned; val: oneHotEncode's result;
\* sizes, splits: splitXY's.  For a Layer method: layer is the object, X the
\* input of forward, Z and val the pair (Z, A) it returned; nextW, nextdZ, Z
\* the arguments of backward and val the dZ it returned
NoUtil == [op |-> "none", X |-> NoMat, Y |-> NoMat, num_classes |-> 0,
           proportions |-> << >>, indices |-> << >>,
           ok |-> TRUE, val |-> NoMat, sizes |-> << >>, splits |-> << >>,
           layer |-> << >>, Z |-> NoMat, nextW |-> NoMat, nextdZ |-> NoMat]

Init ==
  /\ layers \in Networks
  /\ pc = "idle"
  /\ input = NoMat /\ target = NoMat /\ learningRate = Zero /\ epochs = 0
  /\ Y_onehot = NoMat /\ epoch = 0
  /\ outputs = << >> /\ gradients = << >> /\ dZs = << >>
  /\ ret = NoRet
  /\ reported = << >>
  /\ calls = 0
  /\ updates = 0
  /\ hist = [NoHist EXCEPT !.committed = layers]
  /\ util = NoUtil

locals == << Y_onehot, epoch, outputs, gradients, dZs >>
args == << input, target, learningRate, epochs >>

\* train_begin sizing the one-hot target by the last layer's outputSize
train_begin_sizedByOutput ==
  /\ pc = "idle"
  /\ calls < MaxCalls
  /\ \E X \in Inputs, Y \in Targets, p \in TrainParams :
       /\ p[1] = Zero \/ p[2] <= MaxEpochs - updates
       /\ LET onehot == IF Y.r * Y.c = 0 THEN Bad
                     ELSE oneHotEncode(Y, layers[Len(layers)].outputSize)
          IN  /\ input' = X /\ target' = Y /\ learningRate' = p[1] /\ epochs' = p[2]
              /\ Y_onehot' = onehot.val
              /\ pc' = IF onehot.ok THEN "loop" ELSE "failed"
              /\ hist' = [NoHist EXCEPT !.start = layers, !.committed = layers,
                                        !.failedAt = IF onehot.ok THEN "none" ELSE "begin"]
  /\ epoch' = 0
  /\ outputs' = << >> /\ gradients' = << >> /\ dZs' = << >>
  /\ ret' = NoRet
  /\ reported' = << >>
  /\ calls' = calls + 1
  /\ UNCHANGED << layers, updates, util >>

\* train, line 31: the one-hot target is built before the loop
train_begin ==
  /\ pc = "idle"
  /\ calls < MaxCalls
  /\ \E X \in Inputs, Y \in Targets, p \in TrainParams :
       /\ p[1] = Zero \/ p[2] <= MaxEpochs - updates
       /\ LET onehot == IF Y.r * Y.c = 0 THEN Bad
                     ELSE oneHotEncode(Y, Trunc(RAdd(MaxCoeff(Y), One)))
          IN  /\ input' = X /\ target' = Y /\ learningRate' = p[1] /\ epochs' = p[2]
              /\ Y_onehot' = onehot.val
              /\ pc' = IF onehot.ok THEN "loop" ELSE "failed"
              /\ hist' = [NoHist EXCEPT !.start = layers, !.committed = layers,
                                        !.failedAt = IF onehot.ok THEN "none" ELSE "begin"]
  /\ epoch' = 0
  /\ outputs' = << >> /\ gradients' = << >> /\ dZs' = << >>
  /\ ret' = NoRet
  /\ reported' = << >>
  /\ calls' = calls + 1
  /\ UNCHANGED << layers, updates, util >>

\* train_loop with the loop test off by one (epoch <= epochs)
train_loop_offByOne ==
  /\ pc = "loop"
  /\ IF epoch <= epochs
     THEN /\ pc' = "forward"
          /\ UNCHANGED << args, locals, hist >>
     ELSE /\ pc' = "idle"
          /\ input' = NoMat /\ target' = NoMat /\ learningRate' = Zero /\ epochs' = 0
          /\ Y_onehot' = NoMat /\ epoch' = 0
          /\ outputs' = << >> /\ gradients' = << >> /\ dZs' = << >>
          /\ hist' = [NoHist EXCEPT !.committed = hist.committed]
  /\ UNCHANGED << layers, ret, reported, calls, updates, util >>

\* train, line 32: the loop test; when it fails the call returns and its
\* arguments and locals are gone
train_loop ==
  /\ pc = "loop"
  /\ IF epoch < epochs
     THEN /\ pc' = "forward"
          /\ UNCHANGED << args, locals, hist >>
     ELSE /\ pc' = "idle"
          /\ input' = NoMat /\ target' = NoMat /\ learningRate' = Zero /\ epochs' = 0
          /\ Y_onehot' = NoMat /\ epoch' = 0
          /\ outputs' = << >> /\ gradients' = << >> /\ dZs' = << >>
          /\ hist' = [NoHist EXCEPT !.committed = hist.committed]
  /\ UNCHANGED << layers, ret, reported, calls, updates, util >>

\* train, line 34
train_forward ==
  /\ pc = "forward"
  /\ \E res \in { forward(layers, input) } :
         /\ outputs' = res.val
         /\ pc' = IF res.ok THEN "backward" ELSE "failed"
         /\ hist' = [hist EXCEPT !.nForward = @ + 1,
                                 !.failedAt = IF res.ok THEN "none" ELSE "forward"]
  /\ gradients' = << >> /\ dZs' = << >>
  /\ UNCHANGED << layers, args, Y_onehot, epoch, ret, reported, calls, updates, util >>

\* train_backward with a backward that applies the last layer's gradient as
\* soon as it has computed it
train_backward_eagerUpdate ==
  /\ pc = "backward"
  /\ \E res \in { backward(layers, outputs, Y_onehot) } :
         /\ gradients' = res.gradients
         /\ dZs' = res.dZs
         /\ pc' = IF res.ok THEN "update" ELSE "failed"
         /\ hist' = [hist EXCEPT !.nBackward = @ + 1,
                                 !.failedAt = IF res.ok THEN "none" ELSE "backward"]
         /\ layers' = IF res.ok
                      THEN [layers EXCEPT ![Len(layers)] =
                              Layer_updateWeights(@, At(res.gradients, 2 * Len(layers) - 2),
                                                  At(res.gradients, 2 * Len(layers) - 1),
                                                  learningRate).layer]
                      ELSE layers
  /\ UNCHANGED << args, Y_onehot, epoch, outputs, ret, reported, calls, updates, util >>

\* train, line 35
train_backward ==
  /\ pc = "backward"
  /\ \E res \in backwardOutcomes(layers, outputs, Y_onehot) :
         /\ gradients' = res.gradients
         /\ dZs' = res.dZs
         /\ pc' = IF res.ok THEN "update" ELSE "failed"
         /\ hist' = [hist EXCEPT !.nBackward = @ + 1,
                                 !.failedAt = IF res.ok THEN "none" ELSE "backward"]
  /\ UNCHANGED << layers, args, Y_onehot, epoch, outputs, ret, reported, calls, updates, util >>

\* train, line 36
train_update ==
  /\ pc = "update"
  /\ \E res \in { updateWeights(layers, gradients, learningRate) } :
         /\ layers' = res.layers
         /\ pc' = IF res.ok THEN "report" ELSE "failed"
         /\ hist' = [hist EXCEPT !.nUpdate = @ + 1,
                                 !.updated = @ \o res.updated,
                                 !.before = layers,
                                 !.committed = IF res.ok THEN res.layers ELSE @,
                                 !.failedAt = IF res.ok THEN "none" ELSE "update"]
  /\ updates' = IF learningRate = Zero THEN updates ELSE updates + 1
  /\ UNCHANGED << args, locals, ret, reported, calls, util >>

\* train_report testing the 0-based epoch (epoch % 10 == 0)
train_report_zeroBased ==
  /\ pc = "report"
  /\ IF epoch % 10 = 0
     THEN \E acc \in { accuracy(layers, input, target) } :
              /\ reported' = Append(reported, epoch + 1)
              /\ pc' = IF acc.ok THEN "loop" ELSE "failed"
              /\ hist' = [hist EXCEPT !.failedAt = IF acc.ok THEN "none" ELSE "report"]
     ELSE /\ pc' = "loop"
          /\ UNCHANGED << reported, hist >>
  /\ epoch' = epoch + 1
  /\ UNCHANGED << layers, args, Y_onehot, outputs, gradients, dZs, ret, calls, updates, util >>

\* train, lines 37-40 and the loop increment: every 10th epoch the accuracy
\* on the training data is printed
train_report ==
  /\ pc = "report"
  /\ IF (epoch + 1) % 10 = 0
     THEN \E acc \in { accuracy(layers, input, target) } :
              /\ reported' = Append(reported, epoch + 1)
              /\ pc' = IF acc.ok THEN "loop" ELSE "failed"
              /\ hist' = [hist EXCEPT !.failedAt = IF acc.ok THEN "none" ELSE "report"]
     ELSE /\ pc' = "loop"
          /\ UNCHANGED << reported, hist >>
  /\ epoch' = epoch + 1
  /\ UNCHANGED << layers, args, Y_onehot, outputs, gradients, dZs, ret, calls, updates, util >>

\* call_predict with a forward pass that stores the last activation's
\* first column as the last layer's bias
call_predict_writesBack ==
  /\ pc = "idle"
  /\ \E X \in Inputs :
       \E res \in { predict(layers, X) } :
           /\ ret' = [op |-> "predict", X |-> X, Y |-> NoMat, val |-> res.val, acc |-> Zero,
                      nan |-> FALSE]
           /\ pc' = IF res.ok THEN "idle" ELSE "failed"
           /\ layers' = IF res.ok /\ res.val.c >= 1
                        THEN [layers EXCEPT ![Len(layers)].b =
                                [r |-> res.val.r, c |-> 1,
                                 v |-> [i \in 1..res.val.r |-> << res.val.v[i][1] >>]]]
                        ELSE layers
  /\ UNCHANGED << args, locals, reported, calls, updates, hist, util >>

\* a caller's predict(X) between train calls
call_predict ==
  /\ pc = "idle"
  /\ \E X \in Inputs :
       \E res \in { predict(layers, X) } :
           /\ ret' = [op |-> "predict", X |-> X, Y |-> NoMat, val |-> res.val, acc |-> Zero,
                      nan |-> FALSE]
           /\ pc' = IF res.ok THEN "idle" ELSE "failed"
  /\ UNCHANGED << layers, args, locals, reported, calls, updates, hist, util >>

\* a caller's accuracy(X, Y) between train calls
call_accuracy ==
  /\ pc = "idle"
  /\ \E X \in Inputs, Y \in Targets :
       \E res \in { accuracy(layers, X, Y) } :
           /\ ret' = [op |-> "accuracy", X |-> X, Y |-> Y, val |-> NoMat, acc |-> res.val,
                      nan |-> res.nan]
           /\ pc' = IF res.ok THEN "idle" ELSE "failed"
  /\ UNCHANGED << layers, args, locals, reported, calls, updates, hist, util >>

Next ==
  \/ train_begin
  \/ train_loop
  \/ train_forward
  \/ train_backward
  \/ train_update
  \/ train_report
  \/ call_predict
  \/ call_accuracy

Spec == Init /\ [][Next]_vars

----------------------------------------------------------------------------
(* A network constructed from an empty layer list *)

EmptyInit ==
  /\ layers = << >>
  /\ pc = "idle"
  /\ input = NoMat /\ target = NoMat /\ learningRate = Zero /\ epochs = 0
  /\ Y_onehot = NoMat /\ epoch = 0
  /\ outputs = << >> /\ gradients = << >> /\ dZs = << >>
  /\ ret = NoRet
  /\ reported = << >>
  /\ calls = 0
  /\ updates = 0
  /\ hist = [NoHist EXCEPT !.committed = layers]
  /\ util = NoUtil

EmptyNetSpec == EmptyInit /\ [][Next]_vars

----------------------------------------------------------------------------
(* The Utility functions, called as main calls them before a network exists *)

network == << layers, pc, input, target, learningRate, epochs, Y_onehot, epoch,
              outputs, gradients, dZs, ret, reported, calls, updates, hist >>

UtilInit ==
  /\ layers = << >>
  /\ pc = "main"
  /\ input = NoMat /\ target = NoMat /\ learningRate = Zero /\ epochs = 0
  /\ Y_onehot = NoMat /\ epoch = 0
  /\ outputs = << >> /\ gradients = << >> /\ dZs = << >>
  /\ ret = NoRet
  /\ reported = << >>
  /\ calls = 0
  /\ updates = 0
  /\ hist = NoHist
  /\ util = NoUtil

\* a caller's oneHotEncode(Y, num_classes); a behaviour holds one Utility call
call_oneHotEncode ==
  /\ pc = "main" /\ util.op = "none"
  /\ \E Y \in LabelVectors, num_classes \in ClassCounts :
       \E res \in { oneHotEncode(Y, num_classes) } :
           util' = [NoUtil EXCEPT !.op = "oneHotEncode", !.Y = Y, !.num_classes = num_classes,
                                  !.ok = res.ok, !.val = res.val]
  /\ UNCHANGED network

\* main, line 35: splitXY(X, Y, proportions)
call_splitXY ==
  /\ pc = "main" /\ util.op = "none"
  /\ \E n \in RowCounts, proportions \in ProportionLists :
       \E indices \in Shuffles(n) :
         \E res \in { splitXY(DatasetX(n), DatasetY(n), proportions, indices) } :
             util' = [NoUtil EXCEPT !.op = "splitXY", !.X = DatasetX(n), !.Y = DatasetY(n),
                                    !.proportions = proportions, !.indices = indices,
                                    !.ok = res.ok, !.sizes = res.sizes, !.splits = res.splits]
  /\ UNCHANGED network

UtilNext ==
  \/ call_oneHotEncode
  \/ call_splitXY

UtilSpec == UtilInit /\ [][UtilNext]_vars

----------------------------------------------------------------------------
(* The Layer methods, called on a layer of their own *)

\* layer.forward(input) on a batch of m samples
call_Layer_forward ==
  /\ pc = "main" /\ util.op = "none"
  /\ \E inputSize \in 1..MaxIn, outputSize \in 1..MaxOut, m \in 1..MaxBatch :
       \E layer \in LayersOf(inputSize, outputSize),
          X \in Batches(inputSize, m, Columns(inputSize, ForwardValues)) :
         \E res \in { Layer_forward(layer, X) } :
             util' = [NoUtil EXCEPT !.op = "forward", !.layer = layer, !.X = X,
                                    !.ok = res.ok, !.Z = res.Z, !.val = res.A]
  /\ UNCHANGED network

\* layer.backward(nextW, nextdZ, currZ) with the shapes NeuralNetwork::backward
\* hands over: the layer has n neurons, the next one n_next, the batch m samples
call_Layer_backward ==
  /\ pc = "main" /\ util.op = "none"
  /\ \E n \in 1..MaxIn, n_next \in 1..MaxIn, m \in 1..MaxBatch :
       \E a \in ActivationKinds, s \in 1..MaxSeed, nextW \in Draws(n_next, n),
          nextdZ \in { Const(n_next, m, x) : x \in BackwardValues },
          currZ \in Batches(n, m, Columns(n, BackwardValues)) :
        \E layer \in { Layer(1, n, a, s) } :
         \E res \in { Layer_backward(layer, nextW, nextdZ, currZ) } :
             util' = [NoUtil EXCEPT !.op = "backward", !.layer = layer, !.nextW = nextW,
                                    !.nextdZ = nextdZ, !.Z = currZ,
                                    !.ok = res.ok, !.val = res.val]
  /\ UNCHANGED network

LayerNext ==
  \/ call_Layer_forward
  \/ call_Layer_backward

LayerSpec == UtilInit /\ [][LayerNext]_vars

----------------------------------------------------------------------------
(* Properties *)

Max0(n) == IF n > 0 THEN n ELSE 0

\* how often layer index i occurs in the list of updated layers
TimesUpdated(i) == Cardinality({ k \in 1..Len(hist.updated) : hist.updated[k] = i })

C1_Counts ==
  /\ pc = "loop" =>
       /\ hist.nForward = epoch /\ hist.nBackward = epoch /\ hist.nUpdate = epoch
       /\ epoch <= Max0(epochs)
  /\ pc = "forward" =>
       /\ hist.nForward = epoch /\ hist.nBackward = epoch /\ hist.nUpdate = epoch
       /\ epoch < epochs
  /\ pc = "backward" =>
       hist.nForward = epoch + 1 /\ hist.nBackward = epoch /\ hist.nUpdate = epoch
  /\ pc = "update" =>
       hist.nForward = epoch + 1 /\ hist.nBackward = epoch + 1 /\ hist.nUpdate = epoch
  /\ pc = "report" =>
       hist.nForward = epoch + 1 /\ hist.nBackward = epoch + 1 /\ hist.nUpdate = epoch + 1
  /\ (pc = "loop" /\ ~(epoch < epochs)) =>
       /\ epoch = Max0(epochs)
       /\ \A i \in 0..(Len(layers) - 1) : TimesUpdated(i) = Max0(epochs)
       /\ epochs <= 0 => layers = hist.start

InTrain == pc \in {"loop", "forward", "backward", "update", "report"}

\* steps train still has to take when every remaining step succeeds
Remaining ==
  5 * Max0(epochs - epoch) +
  (CASE pc = "loop" -> 4 [] pc = "forward" -> 3 [] pc = "backward" -> 2
     [] pc = "update" -> 1 [] OTHER -> 0)

\* C1: a train call that is not aborted runs forward, backward and
\* updateWeights once each, in that order, in each of exactly `epochs`
\* iterations, so that when the loop ends every layer has been updated
\* `epochs` times (no layer changes when epochs <= 0); and the call ends:
\* each of its steps either leaves train or lowers the number of steps left.
C1_TrainRunsEpochs ==
  [][ /\ C1_Counts /\ C1_Counts'
      /\ InTrain => \/ pc' \in {"idle", "failed"}
                    \/ InTrain' /\ Remaining' < Remaining /\ Remaining' >= 0 ]_vars

C1_Witness ==
  /\ pc = "loop" /\ epochs = MaxEpochs /\ epoch = epochs
  /\ Len(layers) >= 2 /\ layers # hist.start

\* C2: the cache forward returns has 2L+1 entries, the input first, and
\* entries 2k-1, 2k (0-based) are what layer k's forward returns for entry
\* 2k-2, the previous activation.
C2_ForwardCache ==
  pc \in {"backward", "update"} =>
    /\ Len(outputs) = 2 * Len(layers) + 1
    /\ At(outputs, 0) = input
    /\ \A k \in 1..Len(layers) :
         LET r == Layer_forward(layers[k], At(outputs, 2 * k - 2))
         IN  r.ok /\ At(outputs, 2 * k - 1) = r.Z /\ At(outputs, 2 * k) = r.A

C2_Witness ==
  /\ pc = "backward" /\ Len(layers) = 3
  /\ At(outputs, 1) # At(outputs, 2)

\* The layer-by-layer view of one pass, without the flattened cache: the
\* input of layer k (1-based) is the network input for k = 1 and the
\* activation of layer k - 1 otherwise.
RECURSIVE InputOf(_)
InputOf(k) == IF k = 1 THEN input ELSE Layer_forward(layers[k - 1], InputOf(k - 1)).A

ZOf(k) == Layer_forward(layers[k], InputOf(k)).Z
AOf(k) == Layer_forward(layers[k], InputOf(k)).A

\* dZ of layer k (1-based) in backward's list, which holds the last layer first
dZOf(k) == dZs[Len(layers) - k + 1]

\* entries of the returned gradient list for layer k (1-based)
dWOf(k) == At(gradients, 2 * (k - 1))
dbOf(k) == At(gradients, 2 * (k - 1) + 1)

SampleCount == input.c

\* C3: for every layer k but the last, dZ_k is layer k's backward of the next
\* layer's W, the next layer's dZ and layer k's own Z, and its weight
\* gradient is dZ_k times the transposed input of layer k over the samples.
C3_HiddenLayerGradients ==
  pc = "update" =>
    \A k \in 1..(Len(layers) - 1) :
      LET r == Layer_backward(layers[k], layers[k + 1].W, dZOf(k + 1), ZOf(k))
      IN  /\ r.ok
          /\ dZOf(k) = r.val
          /\ dWOf(k) = MatDivInt(MatMulRaw(dZOf(k), Transpose(InputOf(k))), SampleCount)

C3_Witness ==
  /\ pc = "update" /\ Len(layers) = 3
  /\ \E i \in 1..dWOf(1).r, j \in 1..dWOf(1).c : dWOf(1).v[i][j] # Zero
  /\ InputOf(2) # ZOf(1)

\* C4: the last layer's dZ is its activation minus the one-hot target, its
\* bias gradient the row means of that dZ, its weight gradient that dZ times
\* the transposed input of the last layer over the samples (the network
\* input when there is one layer).
C4_LastLayerGradients ==
  pc = "update" =>
    LET L == Len(layers)
        dZ == [r |-> AOf(L).r, c |-> AOf(L).c,
               v |-> [i \in 1..AOf(L).r |-> [j \in 1..AOf(L).c |->
                        AOf(L).v[i][j] - Y_onehot.v[i][j]]]]
    IN  /\ SameShape(AOf(L), Y_onehot)
        /\ dZOf(L) = dZ
        /\ dbOf(L) = [r |-> dZ.r, c |-> 1,
                      v |-> [i \in 1..dZ.r |-> << RDiv(SeqSum(dZ.v[i]), RInt(SampleCount)) >>]]
        /\ dWOf(L) = MatDivInt(MatMulRaw(dZ, Transpose(InputOf(L))), SampleCount)
        /\ L = 1 => InputOf(L) = input

C4_Witness ==
  /\ pc = "update" /\ Len(layers) = 1 /\ SampleCount = 2
  /\ \E i \in 1..dWOf(1).r, j \in 1..dWOf(1).c : dWOf(1).v[i][j] # Zero

\* C5: backward returns 2L gradients in layer order, entry 2i the weight
\* gradient of layer i with the shape of its W and entry 2i+1 its bias
\* gradient with the length of its b, and updateWeights moves every layer by
\* its own pair.
C5_GradientsAligned ==
  /\ pc = "update" =>
       /\ Len(gradients) = 2 * Len(layers)
       /\ \A k \in 1..Len(layers) :
            /\ SameShape(dWOf(k), layers[k].W)
            /\ SameShape(dbOf(k), layers[k].b)
            /\ dWOf(k) = MatDivInt(MatMulRaw(dZOf(k), Transpose(InputOf(k))), SampleCount)
            /\ dbOf(k) = RowwiseMean(dZOf(k))
  /\ pc = "report" =>
       \A k \in 1..Len(layers) :
         /\ layers[k].W = [r |-> dWOf(k).r, c |-> dWOf(k).c,
                           v |-> [i \in 1..dWOf(k).r |-> [j \in 1..dWOf(k).c |->
                                    hist.before[k].W.v[i][j] - RMul(learningRate, dWOf(k).v[i][j])]]]
         /\ layers[k].b = [r |-> dbOf(k).r, c |-> 1,
                           v |-> [i \in 1..dbOf(k).r |->
                                    << hist.before[k].b.v[i][1] - RMul(learningRate, dbOf(k).v[i][1]) >>]]

C5_Witness ==
  /\ pc = "report" /\ Len(layers) = 2
  /\ layers[1].W.r # layers[1].W.c
  /\ layers[1].W # hist.before[1].W /\ layers[2].b # hist.before[2].b

\* C6: in every state every layer's W has outputSize rows and inputSize
\* columns and its b has outputSize entries.
C6_LayerShapes ==
  \A k \in 1..Len(layers) :
    LET l == layers[k]
    IN  /\ l.W.r = l.outputSize /\ l.W.c = l.inputSize
        /\ Len(l.W.v) = l.outputSize
        /\ \A i \in 1..Len(l.W.v) : Len(l.W.v[i]) = l.inputSize
        /\ l.b.r = l.outputSize /\ l.b.c = 1
        /\ Len(l.b.v) = l.outputSize
        /\ \A i \in 1..Len(l.b.v) : Len(l.b.v[i]) = 1

C6_Witness ==
  /\ pc = "idle" /\ updates >= 2 /\ ret.op = "accuracy"
  /\ \E k \in 1..Len(layers) : layers[k].inputSize # layers[k].outputSize

\* C7: Layer::backward leaves the weights as they were, and a layer with
\* the same activation but any other W and b returns the same dZ for the
\* same three arguments.
C7_BackwardPure ==
  pc = "update" =>
    /\ layers = hist.committed
    /\ \A k \in 1..(Len(layers) - 1), s \in 1..(MaxSeed + 2) :
         LET other == Layer(layers[k].inputSize, layers[k].outputSize,
                            layers[k].activationFunction, s)
         IN  Layer_backward(other, layers[k + 1].W, dZOf(k + 1), ZOf(k))
               = Layer_backward(layers[k], layers[k + 1].W, dZOf(k + 1), ZOf(k))

C7_Witness ==
  /\ pc = "update" /\ Len(layers) = 3 /\ updates >= 1
  /\ \E i \in 1..dZOf(1).r, j \in 1..dZOf(1).c : dZOf(1).v[i][j] # Zero

\* C8: predict, accuracy and forward leave every layer's W and b alone (a
\* step from idle that is no new train call is a predict or an accuracy
\* call): a predict repeated on the same input returns the same matrix, and
\* between train calls the weights stay those the last train call left.
C8_QueriesKeepWeights ==
  [][ /\ (pc = "idle" /\ calls' = calls) => layers' = layers
      /\ pc = "forward" => layers' = layers
      /\ (pc = "idle" /\ pc' = "idle" /\ ret.op = "predict" /\ ret'.op = "predict"
            /\ ret'.X = ret.X) => ret'.val = ret.val
      /\ pc = "idle" => layers = hist.committed ]_vars

C8_Witness ==
  /\ pc = "idle" /\ calls = 1 /\ updates >= 1
  /\ ret.op = "predict" /\ layers # CHOOSE n \in Networks : TRUE

\* C9: when train is aborted, the weights are those left by the last
\* updateWeights that returned (those at the call when none did).
C9_FailedTrainKeepsLastUpdate ==
  (pc = "failed" /\ hist.failedAt # "none") =>
    /\ layers = hist.committed
    /\ hist.nUpdate = 0 => layers = hist.start
    /\ hist.failedAt # "update" =>
         \A i \in 0..(Len(layers) - 1) : TimesUpdated(i) = hist.nUpdate

C9_Witness ==
  pc = "failed" /\ hist.failedAt = "backward" /\ Len(layers) >= 2

\* the integer part of a number, by its defining inequalities
TruncOf(y) ==
  CHOOSE t \in -8..8 :
    IF y >= 0 THEN t * Scale <= y /\ y < (t + 1) * Scale
    ELSE (t - 1) * Scale < y /\ y <= t * Scale

\* row r holds the maximum of the column and no earlier row does
IsFirstMax(col, r) ==
  /\ \A q \in 1..Len(col) : col[q] <= col[r]
  /\ \A q \in 1..(r - 1) : col[q] < col[r]

HasTie(P) == \E j \in 1..P.c : \E r, q \in 1..P.r : r # q /\ IsFirstMax(Col(P, j), r)
                                                   /\ P.v[q][j] = P.v[r][j]

\* C10: for an input with at least one sample accuracy returns (number of
\* samples whose first maximal prediction row is the truncated label) /
\* (number of samples), a value in [0, 1].
C10_Accuracy ==
  (pc = "idle" /\ ret.op = "accuracy") =>
    LET P == predict(layers, ret.X).val
        correct == { j \in 1..P.c :
                       \E r \in 1..P.r : /\ IsFirstMax(Col(P, j), r)
                                         /\ r - 1 = TruncOf(ret.Y.v[j][1]) }
    IN  P.c >= 1 =>
          /\ ~ret.nan
          /\ ret.acc = RDiv(RInt(Cardinality(correct)), RInt(P.c))
          /\ Zero <= ret.acc /\ ret.acc <= One

C10_Witness ==
  /\ pc = "idle" /\ ret.op = "accuracy"
  /\ HasTie(predict(layers, ret.X).val)
  /\ ret.acc = Rat(1, 2)
  /\ \E j \in 1..ret.Y.r : ret.Y.v[j][1] % Scale # 0

\* C11: an accuracy call on an input without samples does not return a
\* result, least of all NaN: it ends in a failure; and a train call on an
\* input without samples is rejected before it runs a forward pass.
C11_EmptyInputError ==
  /\ (ret.op = "accuracy" /\ ret.X.c = 0) => (pc = "failed" /\ ~ret.nan)
  /\ pc \in {"forward", "backward", "update", "report"} => input.c > 0

\* adjacent layers k, k + 1 (1-based) whose sizes do not fit
Misfits == { k \in 1..(Len(layers) - 1) : layers[k].outputSize # layers[k + 1].inputSize }

FirstMisfit == CHOOSE k \in Misfits : \A j \in Misfits : k <= j

\* C12: a network whose adjacent layers do not fit is constructed like any
\* other; its first forward pass fails at the first layer that does not fit
\* its predecessor (train gets no further than its first forward, predict
\* and accuracy return nothing), and its weights are never modified.
C12_MismatchFailsAtFirstForward ==
  Misfits # {} =>
    /\ layers \in Networks /\ updates = 0 /\ hist.nUpdate = 0
    /\ pc \in {"idle", "loop", "forward", "failed"}
    /\ pc = "forward" => hist.nForward = 0
    /\ ret.op # "none" => (pc = "failed" /\ ret.val = NoMat /\ ~ret.nan)
    /\ (pc = "failed" /\ hist.failedAt = "forward") =>
         /\ hist.nForward = 1 /\ hist.nBackward = 0
         /\ input.r = layers[1].inputSize =>
              /\ Len(outputs) = 2 * FirstMisfit + 1
              /\ ~Layer_forward(layers[FirstMisfit + 1], At(outputs, Len(outputs) - 1)).ok

C12_Witness ==
  /\ Misfits # {} /\ pc = "failed" /\ hist.failedAt = "forward"
  /\ Len(outputs) = 3 /\ input.c = 2

\* layers (1-based) whose activation name is neither "relu" nor "softmax"
Unrecognized == { k \in 1..Len(layers) : layers[k].activationFunction \notin {"relu", "softmax"} }

\* C13: a layer with any other activation name than "relu" and "softmax"
\* raises no error; its cached A equals its cached Z, and, when it is not
\* the last layer, its dZ is exactly the next layer's transposed W times
\* the next layer's dZ.
C13_UnknownActivationIsIdentity ==
  /\ pc \in {"backward", "update"} =>
       \A k \in Unrecognized :
         /\ At(outputs, 2 * k) = At(outputs, 2 * k - 1)
         /\ At(outputs, 2 * k - 1) = ZOf(k)
  /\ pc = "update" =>
       \A k \in Unrecognized \ {Len(layers)} :
         dZOf(k) = MatMulRaw(Transpose(layers[k + 1].W), dZOf(k + 1))
  /\ (pc = "failed" /\ hist.failedAt = "forward" /\ Misfits = {}) =>
       input.r # layers[1].inputSize

C13_Witness ==
  /\ pc = "update" /\ Unrecognized = {1, 2}
  /\ \E i \in 1..ZOf(1).r, j \in 1..ZOf(1).c : ZOf(1).v[i][j] < Zero
  /\ \E i \in 1..dZOf(1).r, j \in 1..dZOf(1).c : dZOf(1).v[i][j] # Zero

\* the largest label of a label vector, by its defining property
MaxLabel(Y) == CHOOSE x \in { Y.v[i][1] : i \in 1..Y.r } : \A i \in 1..Y.r : Y.v[i][1] <= x

\* C14: inside train the one-hot target has (largest label + 1, cast to
\* int) rows, that is max + 1 rows for integer labels, and one column per
\* label, with its one in the row of the label; it is the same matrix in
\* every epoch and the one backward subtracts from the last activation; its
\* row count ignores the last layer's outputSize, and backward fails when
\* the two differ.
C14_OneHotOnce ==
  [][ /\ InTrain =>
           /\ Y_onehot.r = TruncOf(MaxLabel(target) + One)
           /\ (\A j \in 1..target.r : target.v[j][1] % Scale = 0) =>
                RInt(Y_onehot.r) = MaxLabel(target) + One
           /\ Y_onehot.c = target.r
           /\ \A i \in 1..Y_onehot.r, j \in 1..Y_onehot.c :
                Y_onehot.v[i][j] = IF TruncOf(target.v[j][1]) = i - 1 THEN One ELSE Zero
      /\ (InTrain /\ InTrain') => Y_onehot' = Y_onehot
      /\ (pc = "backward" /\ pc' = "update") =>
           \A i \in 1..Y_onehot.r, j \in 1..Y_onehot.c :
             dZs'[1].v[i][j] = At(outputs, Len(outputs) - 1).v[i][j] - Y_onehot.v[i][j]
      /\ (pc = "backward" /\ Y_onehot.r # layers[Len(layers)].outputSize) =>
           pc' = "failed" ]_vars

C14_Witness ==
  /\ pc = "update" /\ epoch >= 1 /\ layers # hist.start
  /\ Y_onehot.r = 2 /\ Y_onehot.c = 2
  /\ \E j \in 1..target.r : target.v[j][1] % Scale # 0

\* a one-hot target with fewer rows than the last layer has outputs has
\* stopped backward
C14_WitnessTooFewRows ==
  /\ pc = "failed" /\ hist.failedAt = "backward"
  /\ Y_onehot.r < layers[Len(layers)].outputSize /\ Y_onehot.c = input.c

\* layers (1-based) with the activation named "relu"
ReluLayers == { k \in 1..Len(layers) : layers[k].activationFunction = "relu" }

\* C15: for a relu layer the cached Z is W * input + b, b added to every
\* column, and the cached A is max(0, Z) entry by entry: no entry of A is
\* negative and A equals Z wherever Z is positive.
C15_ReluForward ==
  pc \in {"backward", "update"} =>
    \A k \in ReluLayers :
      LET W == layers[k].W
          b == layers[k].b
          X == At(outputs, 2 * k - 2)
          Z == At(outputs, 2 * k - 1)
          A == At(outputs, 2 * k)
      IN  /\ Z.r = W.r /\ Z.c = X.c /\ SameShape(A, Z)
          /\ \A i \in 1..Z.r, j \in 1..Z.c :
               /\ Z.v[i][j] = SeqSum([q \in 1..W.c |-> RMul(W.v[i][q], X.v[q][j])]) + b.v[i][1]
               /\ A.v[i][j] >= Zero
               /\ Z.v[i][j] > Zero => A.v[i][j] = Z.v[i][j]
               /\ Z.v[i][j] <= Zero => A.v[i][j] = Zero

C15_Witness ==
  /\ pc = "backward" /\ 1 \in ReluLayers /\ input.c = 2
  /\ \E i \in 1..ZOf(1).r, j \in 1..ZOf(1).c : ZOf(1).v[i][j] < Zero /\ AOf(1).v[i][j] = Zero
  /\ \E i \in 1..ZOf(1).r, j \in 1..ZOf(1).c : ZOf(1).v[i][j] > Zero

\* what reaches layer k (1-based, not the last) from the layer after it:
\* the next layer's transposed W times the next layer's dZ
BackOf(k) == MatMulRaw(Transpose(layers[k + 1].W), dZOf(k + 1))

\* C16: for a relu layer that is not the last, entry [i,j] of its dZ is 0
\* where its Z[i,j] <= 0 (also where Z[i,j] is exactly 0) and is entry
\* [i,j] of nextW^T * nextdZ where its Z[i,j] > 0.
C16_ReluBackward ==
  pc = "update" =>
    \A k \in ReluLayers \ {Len(layers)} :
      LET Z == At(outputs, 2 * k - 1)
          dZ == dZOf(k)
      IN  /\ SameShape(dZ, Z) /\ SameShape(BackOf(k), Z)
          /\ \A i \in 1..Z.r, j \in 1..Z.c :
               /\ Z.v[i][j] <= Zero => dZ.v[i][j] = Zero
               /\ Z.v[i][j] > Zero => dZ.v[i][j] = BackOf(k).v[i][j]

C16_Witness ==
  /\ pc = "update" /\ 1 \in ReluLayers /\ Len(layers) >= 2
  /\ \E i \in 1..ZOf(1).r, j \in 1..ZOf(1).c :
       ZOf(1).v[i][j] = Zero /\ BackOf(1).v[i][j] # Zero
  /\ \E i \in 1..ZOf(1).r, j \in 1..ZOf(1).c :
       ZOf(1).v[i][j] > Zero /\ dZOf(1).v[i][j] # Zero

FloorOf(proportion, rowCount) ==
  CHOOSE t \in 0..(2 * rowCount) :
    t * Scale <= proportion * rowCount /\ proportion * rowCount < (t + 1) * Scale

\* what the non-last proportions of the call claim together
NonLastRows ==
  SeqSum([k \in 1..(Len(util.proportions) - 1) |-> FloorOf(util.proportions[k], util.X.r)])

SplitCall == util.op = "splitXY" /\ Len(util.proportions) >= 1

\* C18 as stated: for every non-empty proportions list every non-last split
\* gets floor(proportion * rowCount) rows and the sizes, the last one
\* adjusted, sum exactly to the row count.
C18_SizesSumToRows ==
  SplitCall =>
    /\ util.ok
    /\ Len(util.splits) = Len(util.proportions)
    /\ \A k \in 1..(Len(util.proportions) - 1) :
         util.splits[k].X.r = FloorOf(util.proportions[k], util.X.r)
    /\ SeqSum(util.sizes) = util.X.r
    /\ SeqSum([k \in 1..Len(util.splits) |-> util.splits[k].X.r]) = util.X.r

\* C18 amended: for every non-empty proportions list every non-last size is
\* floor(proportion * rowCount).  When the non-last sizes sum to at most the
\* row count the call returns splits of these sizes, the last one taking
\* the rest, and the sizes sum exactly to the row count, also when all
\* truncated sizes together exceed it.  When the non-last sizes alone
\* exceed the row count, the last size wraps around to a huge unsigned
\* value, the sizes do not sum to the row count and the call fails.
C18_SizesSumWhenNonLastFit ==
  SplitCall =>
    LET n == Len(util.proportions)
    IN  /\ Len(util.sizes) = n
        /\ \A k \in 1..(n - 1) : util.sizes[k] = FloorOf(util.proportions[k], util.X.r)
        /\ NonLastRows <= util.X.r =>
             /\ util.ok
             /\ util.sizes[n] = util.X.r - NonLastRows
             /\ SeqSum(util.sizes) = util.X.r
             /\ Len(util.splits) = n
             /\ \A k \in 1..n : util.splits[k].X.r = util.sizes[k]
                                   /\ util.splits[k].Y.r = util.sizes[k]
        /\ NonLastRows > util.X.r =>
             /\ ~util.ok
             /\ util.sizes[n] = SizeMod - (NonLastRows - util.X.r)
             /\ SeqSum(util.sizes) # util.X.r

C18_Witness ==
  /\ SplitCall /\ util.ok /\ util.X.r >= 2
  /\ NonLastRows + FloorOf(util.proportions[Len(util.proportions)], util.X.r) > util.X.r
  /\ util.sizes[Len(util.sizes)] > 0

\* every original row index occurs exactly once over all splits, and every
\* row of a split holds the X row and the Y label of its original row
Partitioned ==
  /\ \A r \in 0..(util.X.r - 1) :
       Cardinality({ ki \in { << k, i >> : k \in 1..Len(util.splits), i \in 1..util.X.r } :
                       /\ ki[2] <= Len(util.splits[ki[1]].rows)
                       /\ util.splits[ki[1]].rows[ki[2]] = r }) = 1
  /\ \A k \in 1..Len(util.splits) :
       LET split == util.splits[k]
       IN  /\ split.X.r = Len(split.rows) /\ split.Y.r = Len(split.rows)
           /\ split.X.c = util.X.c
           /\ \A i \in 1..Len(split.rows) :
                /\ split.rows[i] \in 0..(util.X.r - 1)
                /\ split.X.v[i] = util.X.v[split.rows[i] + 1]
                /\ split.Y.v[i] = util.Y.v[split.rows[i] + 1]

Halves == << Rat(1, 2), Rat(1, 2) >>

TenRowsInHalves ==
  (util.op = "splitXY" /\ util.X.r = 10 /\ util.proportions = Halves) =>
    /\ util.ok /\ Len(util.splits) = 2
    /\ util.splits[1].X.r = 5 /\ util.splits[2].X.r = 5

\* C19 as stated: the splits any splitXY call returns partition the rows,
\* X and Y staying paired, and [0.5, 0.5] on 10 rows gives 5 and 5 rows.
C19_SplitsPartitionRows ==
  /\ (util.op = "splitXY" /\ util.ok) => Partitioned
  /\ TenRowsInHalves

\* C19 amended: the splits a splitXY call with a non-empty proportions list
\* returns partition the rows, X and Y staying paired, and [0.5, 0.5] on 10
\* rows gives 5 and 5 rows.
C19_SplitsPartitionRowsNonEmpty ==
  /\ (SplitCall /\ util.ok) => Partitioned
  /\ TenRowsInHalves

C19_Witness ==
  /\ SplitCall /\ util.ok /\ util.X.r = LongRows /\ util.proportions = Halves
  /\ util.splits[1].rows[1] # 0 /\ util.splits[2].X.r > 0

\* the epochs 10, 20, ... up to n
Tens(n) == [k \in 1..(Max0(n) \div 10) |-> 10 * k]

\* C20: train reports the accuracy exactly at the epochs 10, 20, 30, ...
\* (1-based), floor(epochs / 10) times in a call that runs to its end, each
\* time after the update of that epoch; a report changes no weight and does
\* not touch the epoch count: the loop variable moves on by one as after
\* any other epoch.
C20_ReportEveryTenth ==
  [][ /\ InTrain => reported = Tens(epoch)
      /\ (pc = "loop" /\ ~(epoch < epochs)) =>
           /\ reported = Tens(epochs) /\ Len(reported) = Max0(epochs) \div 10
           /\ hist.nUpdate = Max0(epochs)
      /\ reported' # reported =>
           \/ pc = "idle" /\ reported' = << >>
           \/ /\ pc = "report" /\ (epoch + 1) % 10 = 0
              /\ reported' = Append(reported, epoch + 1)
              /\ hist.nUpdate = epoch + 1 /\ hist.nForward = epoch + 1
      /\ pc = "report" =>
           /\ layers' = layers /\ layers = hist.committed
           /\ epochs' = epochs /\ epoch' = epoch + 1
           /\ pc' = "loop"
           /\ (epoch + 1) % 10 = 0 => reported' = Append(reported, epoch + 1) ]_vars

C20_Witness ==
  /\ pc = "loop" /\ epochs >= 10 /\ epoch = epochs
  /\ reported = << 10 >> /\ hist.nUpdate = epochs

\* the sum of a softmax column of n entries, each rounded to the nearest
\* number, is within n half-steps of 1
SumTolerance(n) == n

RAbs(a) == IF RLt(a, Zero) THEN -a ELSE a

\* C21: a softmax layer's forward returns an A whose every column sums to 1
\* within the rounding tolerance and whose every entry lies in [0, 1], for
\* every Z, columns of equal or very large entries included.
C21_SoftmaxColumns ==
  (util.op = "forward" /\ util.layer.activationFunction = "softmax") =>
    /\ util.ok /\ SameShape(util.val, util.Z)
    /\ \A j \in 1..util.val.c :
         /\ RAbs(RSub(SeqSum(Col(util.val, j)), One)) <= SumTolerance(util.val.r)
         /\ \A i \in 1..util.val.r : Zero <= util.val.v[i][j] /\ util.val.v[i][j] <= One

\* a softmax layer of three neurons whose Z has a column of equal entries
\* above 709 (where e^z overflows a double)
C21_Witness ==
  /\ util.op = "forward" /\ util.layer.activationFunction = "softmax" /\ util.ok
  /\ util.val.r = 3 /\ util.val.c = 2
  /\ \E j \in 1..2 : \A i \in 1..3 : util.Z.v[i][j] = util.Z.v[1][j] /\ util.Z.v[i][j] > RInt(709)

\* a softmax layer whose Z has a column with entries at least 1000 apart
C21_WitnessSpread ==
  /\ util.op = "forward" /\ util.layer.activationFunction = "softmax" /\ util.ok
  /\ \E j \in 1..util.Z.c, i, k \in 1..util.Z.r : util.Z.v[i][j] - util.Z.v[k][j] >= Big

\* C22: within an epoch the weights stay as they are from the start of
\* forward to the end of backward; updateWeights starts only when backward
\* has returned, and then the gradient list is complete and is what backward
\* computes from the cache of this epoch's forward pass and the weights that
\* pass used, no layer having been updated in this epoch.
C22_GradientsFromForwardWeights ==
  [][ /\ pc \in {"forward", "backward"} => layers' = layers
      /\ pc' = "update" => pc = "backward"
      /\ pc = "update" =>
           /\ layers = hist.committed /\ hist.nUpdate = epoch
           /\ outputs = forward(layers, input).val
           /\ Len(gradients) = 2 * Len(layers)
           /\ gradients = backward(layers, outputs, Y_onehot).gradients ]_vars

\* the second epoch of a call: the weights differ from those at the call
C22_Witness ==
  /\ pc = "update" /\ epoch = 1 /\ Len(layers) >= 2
  /\ layers # hist.start /\ Len(gradients) = 2 * Len(layers)

\* the arguments NeuralNetwork::backward hands to Layer::backward fit: the
\* layer has n neurons, nextW is n_next x n, nextdZ n_next x m, currZ n x m
BackwardArgsFit ==
  /\ util.nextW.c = util.layer.outputSize /\ util.Z.r = util.layer.outputSize
  /\ util.nextdZ.r = util.nextW.r /\ util.nextdZ.c = util.Z.c /\ util.Z.c >= 1

\* C23: for every activation kind and every batch size m >= 1,
\* Layer::backward on arguments of fitting shapes completes without a
\* dimension failure and returns a dZ of the shape of currZ (n x m).
C23_BackwardShape ==
  (util.op = "backward" /\ BackwardArgsFit) => (util.ok /\ SameShape(util.val, util.Z))

\* C24: for every layer count L >= 0 every cache index NeuralNetwork::backward
\* reads lies inside the cache of 2L+1 entries, and every index
\* NeuralNetwork::updateWeights reads lies inside the gradient list backward
\* returned.
C24_IndicesInside ==
  /\ pc = "backward" =>
       /\ Len(outputs) = 2 * Len(layers) + 1
       /\ backwardReads(Len(layers), Len(outputs)) \subseteq 0..(Len(outputs) - 1)
  /\ pc = "update" => updateReads(Len(layers)) \subseteq 0..(Len(gradients) - 1)

\* the call is oneHotEncode(Y, num_classes) as train makes it: Y holds a
\* label and num_classes is the largest label plus one, cast to int
AsTrainEncodes ==
  /\ util.op = "oneHotEncode" /\ util.Y.r >= 1
  /\ util.num_classes = Trunc(RAdd(MaxCoeff(util.Y), One))

LabelOf(j) == util.Y.v[j][1]

ColumnAllZero(j) == \A i \in 1..util.val.r : util.val.v[i][j] = Zero

\* C25: oneHotEncode raises no error for a label outside [0, num_classes):
\* the column of a negative label or of a label >= num_classes is all zero,
\* every column sums to 0 or 1, and in train (num_classes = max label + 1)
\* exactly the samples with negative labels get an all-zero column.
C25_OutOfRangeLabelsLeftZero ==
  /\ (util.op = "oneHotEncode" /\ util.num_classes >= 0) =>
       /\ util.ok
       /\ \A j \in 1..util.val.c :
            /\ (RLt(LabelOf(j), Zero) \/ ~RLt(LabelOf(j), RInt(util.num_classes)))
                 => ColumnAllZero(j)
            /\ SeqSum(Col(util.val, j)) \in { Zero, One }
  /\ AsTrainEncodes =>
       /\ util.ok
       /\ \A j \in 1..util.val.c : ColumnAllZero(j) <=> RLt(LabelOf(j), Zero)

\* C25 as amended: the label is cast to int (truncated toward zero) before
\* the range test.  With num_classes >= 0 the call returns; a column is all
\* zero exactly when its truncated label is outside [0, num_classes) and
\* otherwise holds a single 1 in the row of the truncated label, so every
\* column sums to 0 or 1.  With num_classes < 0 the call fails.  In train
\* the call fails when the largest label is -2 or less; otherwise the
\* all-zero columns are exactly those of the labels <= -1 when the largest
\* label is at least 0, and the matrix has no row at all when it is below 0.
C25_TruncatedLabelsOutOfRange ==
  /\ util.op = "oneHotEncode" => (util.ok <=> util.num_classes >= 0)
  /\ (util.op = "oneHotEncode" /\ util.ok) =>
       /\ util.val.r = util.num_classes /\ util.val.c = util.Y.r
       /\ \A j \in 1..util.val.c :
            LET label == Trunc(LabelOf(j))
            IN  /\ ColumnAllZero(j) <=> (label < 0 \/ label >= util.num_classes)
                /\ (label >= 0 /\ label < util.num_classes) =>
                     \A i \in 1..util.val.r :
                       util.val.v[i][j] = IF i = label + 1 THEN One ELSE Zero
                /\ SeqSum(Col(util.val, j)) \in { Zero, One }
  /\ AsTrainEncodes =>
       /\ util.ok <=> RLt(RInt(-2), MaxCoeff(util.Y))
       /\ (util.ok /\ ~RLt(MaxCoeff(util.Y), Zero)) =>
            \A j \in 1..util.val.c : ColumnAllZero(j) <=> ~RLt(RInt(-1), LabelOf(j))
       /\ (util.ok /\ RLt(MaxCoeff(util.Y), Zero)) => util.val.r = 0

\* train's encoding of the labels -1, -0.5 and 1: the first column is all
\* zero and the second holds its 1 in row 0
C25_Witness ==
  /\ AsTrainEncodes /\ util.ok /\ util.num_classes = 2
  /\ util.Y = ColVec(<< RInt(-1), Rat(-1, 2), One >>)
  /\ ColumnAllZero(1) /\ util.val.v[1][2] = One /\ util.val.v[2][3] = One

====
